---- MODULE Spec2Model ----
(***************************************************************************)
(* Model of oellm: the container-image acquisition of                      *)
(* container_utils.ensure_singularity_image run by several processes on    *)
(* one destination path (SpecEnsure), the scheduling run of                *)
(* main.schedule_evals with main.ensure_singularity_image and              *)
(* main._process_model_paths up to the built matrix (SpecSched), two       *)
(* invocations of schedule_evals from the built matrix to the submission   *)
(* with main._parse_user_queue_load (SpecSubmit), and repeated calls of    *)
(* main._process_model_paths (SpecResolve).                                *)
(***************************************************************************)
EXTENDS Integers, Sequences, FiniteSets, TLC

\* ------------------------------------------------------------------------
\* Bounds
\* ------------------------------------------------------------------------
\* number of processes calling ensure_singularity_image on the same sif_path
NumProcs == 2
\* number of chunks shutil.copy2 writes for one image
NumChunks == 2
\* longest list of model references given to schedule_evals by `models`
MaxModels == 2
\* largest number of rows of the table given by `eval_csv_path`
MaxRows == 2
\* largest number of rows of the matrix of an invocation
MaxJobs == 2
\* number of seconds the clock can advance while the invocations run
MaxClock == 1
\* number of calls of _process_model_paths made one after the other
NumCalls == 2

\* ========================================================================
\* Part I: container_utils.ensure_singularity_image
\* ========================================================================
Procs == 1..NumProcs

\* A directory entry maps a path to an inode; NoFile: the path does not exist.
NoFile == <<0, "none">>
\* the inode of an image that is at sif_path before any call
InitInode == <<0, "init">>
Inodes == {InitInode} \cup (Procs \X {"fetch", "build"})

\* sif_path = sif_path.expanduser().resolve()
SifPath == <<"image.sif", 0>>
\* sif_path.with_suffix(".tmp"): a function of sif_path alone
WithSuffixTmp(path) == <<"image.tmp", path[2]>>
\* the names tempfile.NamedTemporaryFile(dir=sif_path.parent, suffix=".sif")
\* can draw; one per process is enough for a fresh one to exist always
RandomNames == {<<"tmpXXXXXXXX.sif", n>> : n \in 1..NumProcs}
Paths == {SifPath, WithSuffixTmp(SifPath)} \cup RandomNames
NoPath == <<"", 0>>

\* the chunks of a fully-written image
Complete == 1..NumChunks

VARIABLES
  dir,            \* the destination directory: path -> inode or NoFile
  content,        \* inode -> set of chunks written
  pc,             \* position of each process in ensure_singularity_image
  fd,             \* the inode the process's copy has open for writing
  offset,         \* next chunk the process's copy writes
  tmp_path,       \* the local variable tmp_path of each call
  initPresent,    \* history: sif_path held an image before any call
  fetchFailed,    \* history: the fetch stage of the call raised
  buildAttempted, \* history: the call entered the build stage
  buildFailed,    \* history: the build stage of the call raised
  installers      \* history: processes that renamed a file onto sif_path

ensureVars == <<dir, content, pc, fd, offset, tmp_path, initPresent,
                fetchFailed, buildAttempted, buildFailed, installers>>

VARIABLES
  spc,            \* position of the run in schedule_evals
  args,           \* the arguments of the call of schedule_evals
  hubOk,          \* the (repo_id, revision) pairs snapshot_download can fetch
  imageAtBase,    \* the image file exists under EVAL_BASE_DIR
  imageAtCall,    \* history: it existed when schedule_evals was called
  imageFetches,   \* history: calls of hf_hub_download for the image
  pm_models,      \* _process_model_paths: the argument `models`
  pm_i,           \* _process_model_paths: index of the next loop iteration
  model_paths,    \* _process_model_paths: the one list object `model_paths`
  pm_keys,        \* _process_model_paths: keys of processed_model_paths,
                  \* in insertion order; every key refers to `model_paths`
  warned,         \* references logged as "will be skipped" (line 206)
  model_path_map, \* schedule_evals: the mapping _process_model_paths returned
  df,             \* schedule_evals: the data frame of evaluation jobs
  error           \* the exception that ended the run, "" when none

schedVars == <<spc, args, hubOk, imageAtBase, imageAtCall, imageFetches,
               pm_models, pm_i, model_paths, pm_keys, warned, model_path_map,
               df, error>>

\* the part of schedule_evals after the matrix is built (lines 419-499), for
\* several invocations on one output root, one scheduler queue, one clock
VARIABLES
  rpc,            \* position of each invocation after line 417
  njobs,          \* len(df) of each invocation
  download_only,  \* the argument download_only of each invocation
  queue_limit,    \* int(os.environ.get("QUEUE_LIMIT", 250)), line 430
  squeue_stdout,  \* result.stdout of the squeue pipeline, line 119
  remaining_queue_capacity,  \* line 431
  evals_dir,      \* the run directory of each invocation, line 442
  logs,           \* the warnings, errors and infos each invocation logged
  queueQueries,   \* history: calls of _parse_user_queue_load
  sbatch_result,  \* how subprocess.run(["sbatch"]) ended, "" before it
  now,            \* the wall clock, in seconds
  queue,          \* the user's pending and running jobs in the scheduler
  run_dirs        \* the directories under EVAL_OUTPUT_DIR and their files

submitVars == <<rpc, njobs, download_only, queue_limit, squeue_stdout,
                remaining_queue_capacity, evals_dir, logs, queueQueries,
                sbatch_result, now, queue, run_dirs>>

\* two calls of _process_model_paths, one after the other
VARIABLES
  results         \* the mappings the calls returned, in order

callVars == <<results>>

notEnsureVars == <<schedVars, submitVars, callVars>>
notSchedVars == <<ensureVars, submitVars, callVars>>
notSubmitVars == <<ensureVars, schedVars, callVars>>

Exists(path) == dir[path] # NoFile

\* The file system frees an inode that no path names and no process has
\* open: its content is gone.
Reclaim(d, f, c) ==
  [i \in Inodes |->
     IF (\E path \in Paths : d[path] = i) \/ (\E q \in Procs : f[q] = i)
     THEN c[i] ELSE {}]

\* the call ends, by return ("returned") or by an exception ("raised"):
\* its locals are gone
EndCall(p, how) ==
  /\ pc' = [pc EXCEPT ![p] = how]
  /\ tmp_path' = [tmp_path EXCEPT ![p] = NoPath]
  /\ offset' = [offset EXCEPT ![p] = 1]

\* lines 68-72: resolve the path; return at once when it exists and not force
EnsureStart(p) ==
  /\ UNCHANGED notEnsureVars
  /\ pc[p] = "idle"
  /\ \E force \in BOOLEAN :
       IF Exists(SifPath) /\ ~force
         THEN EndCall(p, "returned")
         ELSE /\ pc' = [pc EXCEPT ![p] = "download"]
              /\ UNCHANGED <<tmp_path, offset>>
  /\ UNCHANGED <<dir, content, fd, initPresent, fetchFailed,
                 buildAttempted, buildFailed, installers>>

\* FetchExceptTarget without the `except Exception` handler of lines 106-112
FetchExceptTarget_NoCatchAll(exc) ==
  CASE exc = "HfHubDownloadError" -> "build"
    [] OTHER -> "raised"

\* lines 100-112: where control goes when the try block of the fetch stage
\* raises exc: both handlers log a warning and fall through to line 114
FetchExceptTarget(exc) ==
  CASE exc = "HfHubDownloadError" -> "build"
    [] OTHER -> "build"

\* a failure of the fetch stage: the file shutil.copy2 has open (if any) is
\* closed, nothing is removed, and control goes to the handler
FetchFails(p, exc) ==
  /\ fetchFailed' = [fetchFailed EXCEPT ![p] = TRUE]
  /\ fd' = [fd EXCEPT ![p] = NoFile]
  /\ offset' = [offset EXCEPT ![p] = 1]
  /\ pc' = [pc EXCEPT ![p] = FetchExceptTarget(exc)]
  /\ tmp_path' = [tmp_path EXCEPT ![p] =
                    IF FetchExceptTarget(exc) = "raised" THEN NoPath ELSE @]

\* lines 82-87: hf_hub_download into the hub cache
HfHubDownload(p) ==
  /\ UNCHANGED notEnsureVars
  /\ pc[p] = "download"
  /\ \/ /\ pc' = [pc EXCEPT ![p] = "copy_open"]
        /\ UNCHANGED <<fetchFailed, fd, tmp_path, offset>>
     \/ \E exc \in {"HfHubDownloadError", "Exception"} : FetchFails(p, exc)
  /\ UNCHANGED <<dir, content, initPresent, buildAttempted, buildFailed,
                 installers>>

\* lines 93-94: tmp_path = sif_path.with_suffix(".tmp"); shutil.copy2 opens
\* it "wb": the file is created when absent and truncated when present
CopyOpen(p) ==
  /\ UNCHANGED notEnsureVars
  /\ pc[p] = "copy_open"
  /\ \/ LET t == WithSuffixTmp(SifPath)
            ino == IF Exists(t) THEN dir[t] ELSE <<p, "fetch">>
        IN /\ dir' = [dir EXCEPT ![t] = ino]
           /\ content' = [content EXCEPT ![ino] = {}]
           /\ fd' = [fd EXCEPT ![p] = ino]
           /\ offset' = [offset EXCEPT ![p] = 1]
           /\ tmp_path' = [tmp_path EXCEPT ![p] = t]
           /\ pc' = [pc EXCEPT ![p] = "copy_write"]
           /\ UNCHANGED fetchFailed
     \/ /\ FetchFails(p, "OSError")
        /\ UNCHANGED <<dir, content>>
  /\ UNCHANGED <<initPresent, buildAttempted, buildFailed, installers>>

\* line 94: shutil.copy2 writes the next chunk through its open file
CopyWrite(p) ==
  /\ UNCHANGED notEnsureVars
  /\ pc[p] = "copy_write"
  /\ \/ /\ content' = [content EXCEPT ![fd[p]] = @ \cup {offset[p]}]
        /\ offset' = [offset EXCEPT ![p] = @ + 1]
        /\ pc' = [pc EXCEPT ![p] =
                    IF offset[p] = NumChunks THEN "copy_stat" ELSE "copy_write"]
        /\ UNCHANGED <<fetchFailed, fd, tmp_path>>
     \/ /\ FetchFails(p, "OSError")
        /\ content' = Reclaim(dir, fd', content)
  /\ UNCHANGED <<dir, initPresent, buildAttempted, buildFailed, installers>>

\* line 94: shutil.copy2 closes the file and copies the metadata by path
CopyStat(p) ==
  /\ UNCHANGED notEnsureVars
  /\ pc[p] = "copy_stat"
  /\ IF Exists(tmp_path[p])
       THEN /\ pc' = [pc EXCEPT ![p] = "replace"]
            /\ fd' = [fd EXCEPT ![p] = NoFile]
            /\ offset' = [offset EXCEPT ![p] = 1]
            /\ UNCHANGED <<fetchFailed, tmp_path>>
       ELSE FetchFails(p, "FileNotFoundError")
  /\ content' = Reclaim(dir, fd', content)
  /\ UNCHANGED <<dir, initPresent, buildAttempted, buildFailed, installers>>

\* lines 95-98: tmp_path.replace(sif_path), then return
FetchReplace(p) ==
  /\ UNCHANGED notEnsureVars
  /\ pc[p] = "replace"
  /\ \/ /\ Exists(tmp_path[p])
        /\ dir' = [dir EXCEPT ![SifPath] = dir[tmp_path[p]],
                              ![tmp_path[p]] = NoFile]
        /\ installers' = installers \cup {p}
        /\ EndCall(p, "returned")
        /\ UNCHANGED <<fetchFailed, fd>>
     \/ /\ FetchFails(p, IF Exists(tmp_path[p]) THEN "OSError"
                         ELSE "FileNotFoundError")
        /\ UNCHANGED <<dir, installers>>
  /\ content' = Reclaim(dir', fd', content)
  /\ UNCHANGED <<initPresent, buildAttempted, buildFailed>>

\* line 128: the names NamedTemporaryFile may take: it opens with O_EXCL,
\* so only a name that does not exist
FreshNames == {name \in RandomNames : ~Exists(name)}

\* lines 114-130: mkdir of the parent, then NamedTemporaryFile(delete=False)
\* creates an empty file and tmp_path is its name
BuildMktemp(p) ==
  /\ UNCHANGED notEnsureVars
  /\ pc[p] = "build"
  /\ \E name \in FreshNames :
       /\ dir' = [dir EXCEPT ![name] = <<p, "build">>]
       /\ content' = [content EXCEPT ![<<p, "build">>] = {}]
       /\ tmp_path' = [tmp_path EXCEPT ![p] = name]
  /\ buildAttempted' = [buildAttempted EXCEPT ![p] = TRUE]
  /\ pc' = [pc EXCEPT ![p] = "build_run"]
  /\ UNCHANGED <<fd, offset, initPresent, fetchFailed, buildFailed,
                 installers>>

\* lines 147-151: the only handler of the build stage
BuildExceptCaught(exc) == exc = "CalledProcessError"

\* an exception in the try block of the build stage (lines 143-146)
BuildFails(p, exc) ==
  /\ buildFailed' = [buildFailed EXCEPT ![p] = TRUE]
  /\ IF BuildExceptCaught(exc)
       THEN /\ pc' = [pc EXCEPT ![p] = "build_except"]
            /\ UNCHANGED <<tmp_path, offset>>
       ELSE EndCall(p, "raised")

\* what a build that did not succeed leaves in its output file
PartialOutputs == {1..k : k \in 0..(NumChunks - 1)}

\* line 144: subprocess.run(build_cmd, check=True)
BuildRun(p) ==
  /\ UNCHANGED notEnsureVars
  /\ pc[p] = "build_run"
  /\ \/ /\ content' = [content EXCEPT ![dir[tmp_path[p]]] = Complete]
        /\ pc' = [pc EXCEPT ![p] = "build_replace"]
        /\ UNCHANGED <<buildFailed, tmp_path, offset>>
     \/ /\ \E written \in PartialOutputs :
             content' = [content EXCEPT ![dir[tmp_path[p]]] = written]
        /\ BuildFails(p, "CalledProcessError")
     \/ /\ BuildFails(p, "FileNotFoundError")
        /\ UNCHANGED content
  /\ UNCHANGED <<dir, fd, initPresent, fetchFailed, buildAttempted,
                 installers>>

\* lines 146, 153: tmp_path.replace(sif_path); an OSError of the rename is
\* not a CalledProcessError
BuildReplace(p) ==
  /\ UNCHANGED notEnsureVars
  /\ pc[p] = "build_replace"
  /\ \/ /\ dir' = [dir EXCEPT ![SifPath] = dir[tmp_path[p]],
                              ![tmp_path[p]] = NoFile]
        /\ installers' = installers \cup {p}
        /\ EndCall(p, "returned")
        /\ UNCHANGED buildFailed
     \/ /\ BuildFails(p, "OSError")
        /\ UNCHANGED <<dir, installers>>
  /\ content' = Reclaim(dir', fd, content)
  /\ UNCHANGED <<fd, initPresent, fetchFailed, buildAttempted>>

\* BuildExcept without the `raise` of line 151
BuildExcept_NoRaise(p) ==
  /\ UNCHANGED notEnsureVars
  /\ pc[p] = "build_except"
  /\ dir' = [dir EXCEPT ![tmp_path[p]] = NoFile]
  /\ content' = Reclaim(dir', fd, content)
  /\ EndCall(p, "returned")
  /\ UNCHANGED <<fd, initPresent, fetchFailed, buildAttempted, buildFailed,
                 installers>>

\* lines 147-151: log, tmp_path.unlink(missing_ok=True), raise
BuildExcept(p) ==
  /\ UNCHANGED notEnsureVars
  /\ pc[p] = "build_except"
  /\ dir' = [dir EXCEPT ![tmp_path[p]] = NoFile]
  /\ content' = Reclaim(dir', fd, content)
  /\ EndCall(p, "raised")
  /\ UNCHANGED <<fd, initPresent, fetchFailed, buildAttempted, buildFailed,
                 installers>>

\* ========================================================================
\* Part II: main.schedule_evals, main.ensure_singularity_image and
\* main._process_model_paths
\* ========================================================================

\* ---- the environment: the local file system and the model references ----
\* ckpts/hf/iter_1/*.safetensors, ckpts/hf/iter_2/*.safetensors, ckpts/hf/logs/
\* single/model.safetensors
\* empty/
\* run_hf/model.safetensors, run_hf/iter_1/*.safetensors
LocalDirs == {"ckpts", "single", "empty", "run_hf"}
\* model references without a comma (what models.split(",") can yield)
PlainRefs == LocalDirs \cup {"org/m"}
\* model references a table can hold
AllRefs == PlainRefs \cup {"org/m,revision=r1"}
Tasks == {"T1", "T2"}
Shots == {0, 5}

\* Path(model).exists() and Path(model).is_dir()
IsLocalDir(model) == model \in LocalDirs
\* any(path.glob("*.safetensors"))
SafetensorsIn(path) ==
  path \in {"single", "run_hf", "ckpts/hf/iter_1", "ckpts/hf/iter_2",
            "run_hf/iter_1"}
\* "hf" in Path(model).name
NameHasHf(model) == model = "run_hf"
\* Path(model) / "hf"
HfSubdir(model) ==
  CASE model = "ckpts" -> "ckpts/hf"
    [] model = "single" -> "single/hf"
    [] model = "empty" -> "empty/hf"
    [] OTHER -> "run_hf/hf"
\* path.glob("*"): the entries of a directory, none when it does not exist
Glob(path) ==
  CASE path = "ckpts/hf" -> <<"ckpts/hf/iter_1", "ckpts/hf/iter_2",
                              "ckpts/hf/logs">>
    [] path = "ckpts" -> <<"ckpts/hf">>
    [] path = "single" -> <<"single/model.safetensors">>
    [] path = "run_hf" -> <<"run_hf/iter_1", "run_hf/model.safetensors">>
    [] OTHER -> <<>>
\* subdir.is_dir()
IsDir(path) ==
  path \in LocalDirs \cup {"ckpts/hf", "ckpts/hf/iter_1", "ckpts/hf/iter_2",
                           "ckpts/hf/logs", "run_hf/iter_1"}
\* model.split(",")
SplitComma(model) ==
  IF model = "org/m,revision=r1" THEN <<"org/m", "revision=r1">>
  ELSE <<model>>
\* "," in model
HasComma(model) == Len(SplitComma(model)) > 1
\* "=" in kv, and kv.split("=")
HasEquals(kv) == kv = "revision=r1"
SplitEquals(kv) == IF kv = "revision=r1" THEN <<"revision", "r1">> ELSE <<kv>>

\* ---- helpers on sequences ----
Range(seq) == {seq[k] : k \in DOMAIN seq}
RECURSIVE Flatten(_)
Flatten(seqs) ==
  IF seqs = <<>> THEN <<>> ELSE Head(seqs) \o Flatten(Tail(seqs))
\* pandas Series.unique(): the distinct values in order of first appearance
RECURSIVE Unique(_)
Unique(seq) ==
  IF seq = <<>> THEN <<>>
  ELSE LET init == Unique(SubSeq(seq, 1, Len(seq) - 1))
           last == seq[Len(seq)]
       IN IF last \in Range(init) THEN init ELSE Append(init, last)

\* ---- _process_model_paths, one reference ----
\* lines 146-156: what the local branch appends to model_paths
LocalMatches(model) ==
  LET direct == IF SafetensorsIn(model) THEN <<model>> ELSE <<>>
      model_path_base == IF ~NameHasHf(model) THEN HfSubdir(model) ELSE model
      keep(subdir) == IsDir(subdir) /\ SafetensorsIn(subdir)
  IN direct \o SelectSeq(Glob(model_path_base), keep)

\* lines 167-178: the keyword arguments of snapshot_download; "" when the
\* reference pins no revision
SnapshotRevision(model) ==
  LET kvs == SelectSeq(SplitComma(model), HasEquals)
      revs == SelectSeq(kvs, LAMBDA kv : SplitEquals(kv)[1] = "revision")
  IN IF revs = <<>> THEN "" ELSE SplitEquals(revs[Len(revs)])[2]

\* lines 173, 183-187, 199-202: snapshot_download succeeds
DownloadOk(model) ==
  <<Head(SplitComma(model)), SnapshotRevision(model)>> \in hubOk

\* lines 166-203: the remote branch raises: only the branch of a reference
\* with a comma wraps snapshot_download in try/except
RemoteRaises(model) == ~HasComma(model) /\ ~DownloadOk(model)

\* lines 188, 203: what the remote branch appends to model_paths
RemoteMatches(model) == IF DownloadOk(model) THEN <<model>> ELSE <<>>

\* lines 140-203: what one loop iteration appends for `model`
Resolved(model) ==
  IF IsLocalDir(model) THEN LocalMatches(model) ELSE RemoteMatches(model)

\* ---- the inputs of a run ----
NoTable == <<>>
ShotArgs == {[kind |-> "int", val |-> <<n>>] : n \in Shots}
              \cup {[kind |-> "list", val |-> <<0, 5>>]}
NoShots == [kind |-> "none", val |-> <<>>]
ModelLists == UNION {[1..n -> PlainRefs] : n \in 1..MaxModels}
TaskLists == {<<"T1">>, <<"T1", "T2">>}
\* a table with the required columns and one more column, `note`
TableOf(cells) ==
  [k \in DOMAIN cells |->
     [model_path |-> cells[k][1], task_path |-> cells[k][2],
      n_shot |-> cells[k][3], note |-> k]]
Tables ==
  {TableOf(cells) :
     cells \in UNION {[1..n -> AllRefs \X Tasks \X Shots] : n \in 0..MaxRows}}
NoArgs ==
  [csv_given |-> FALSE, csv |-> NoTable, models_given |-> FALSE,
   models |-> <<>>, tasks_given |-> FALSE, tasks |-> <<>>, n_shot |-> NoShots]
CsvCalls == {[NoArgs EXCEPT !.csv_given = TRUE, !.csv = t] : t \in Tables}
GenCalls ==
  {[NoArgs EXCEPT !.models_given = TRUE, !.models = m,
                  !.tasks_given = TRUE, !.tasks = t, !.n_shot = s] :
     m \in ModelLists, t \in TaskLists, s \in ShotArgs}
PartialCalls ==
  {NoArgs, [NoArgs EXCEPT !.models_given = TRUE, !.models = <<"single">>]}
\* a table together with one of the selectors models, tasks, n_shot
MixedTables ==
  {TableOf(<<<<"single", "T1", 0>>>>), TableOf(<<<<"ckpts", "T2", 5>>>>)}
MixedCalls ==
  UNION {{[NoArgs EXCEPT !.csv_given = TRUE, !.csv = t,
                         !.models_given = TRUE, !.models = <<"single">>],
          [NoArgs EXCEPT !.csv_given = TRUE, !.csv = t,
                         !.tasks_given = TRUE, !.tasks = <<"T1">>]}
           \cup {[NoArgs EXCEPT !.csv_given = TRUE, !.csv = t, !.n_shot = s] :
                   s \in ShotArgs} : t \in MixedTables}
Calls == CsvCalls \cup GenCalls \cup PartialCalls \cup MixedCalls
HubKeys == {<<"org/m", "">>, <<"org/m", "r1">>}

\* Python truth of the arguments (lines 375, 400)
Truthy(given, val) == given /\ val # <<>>
ShotTruthy(n_shot) ==
  CASE n_shot.kind = "none" -> FALSE
    [] n_shot.kind = "int" -> n_shot.val[1] # 0
    [] OTHER -> n_shot.val # <<>>

\* the run ends with exception exc
Raise(exc) ==
  /\ spc' = "raised"
  /\ error' = exc

\* lines 327-370: the call with its arguments, in some environment;
\* EVAL_CONTAINER_IMAGE unset is a ValueError
SchedStart ==
  /\ spc = "idle"
  /\ args' \in Calls
  /\ hubOk' \in SUBSET HubKeys
  /\ imageAtBase' \in BOOLEAN
  /\ imageAtCall' = imageAtBase'
  /\ \E image_name_set \in BOOLEAN :
       IF image_name_set
         THEN spc' = "ensure_image" /\ UNCHANGED error
         ELSE Raise("ValueError")
  /\ UNCHANGED <<imageFetches, pm_models, pm_i, model_paths, pm_keys, warned,
                 model_path_map, df>>
  /\ UNCHANGED notSchedVars

\* main.ensure_singularity_image, lines 21-34 (called at line 372):
\* hf_hub_download into EVAL_BASE_DIR, whatever is there already; its
\* exception is not handled
MainEnsureImage ==
  /\ spc = "ensure_image"
  /\ imageFetches' = imageFetches + 1
  /\ \/ /\ imageAtBase' = TRUE
        /\ spc' = "mode"
        /\ UNCHANGED error
     \/ /\ Raise("HubDownloadError")
        /\ UNCHANGED imageAtBase
  /\ UNCHANGED <<args, hubOk, imageAtCall, pm_models, pm_i, model_paths,
                 pm_keys, warned, model_path_map, df>>
  /\ UNCHANGED notSchedVars

\* the call _process_model_paths(models): lines 137-138
CallProcessModelPaths(models) ==
  /\ pm_models' = models
  /\ pm_i' = 1
  /\ model_paths' = <<>>
  /\ pm_keys' = <<>>
  /\ spc' = "resolve"

\* lines 374-387 and 400-401, 414-417: the input mode
SchedMode ==
  /\ spc = "mode"
  /\ IF args.csv_given
       THEN IF \/ Truthy(args.models_given, args.models)
               \/ Truthy(args.tasks_given, args.tasks)
               \/ ShotTruthy(args.n_shot)
              THEN /\ Raise("ValueError")
                   /\ UNCHANGED <<pm_models, pm_i, model_paths, pm_keys, df>>
              ELSE /\ df' = args.csv
                   /\ CallProcessModelPaths(
                        Unique([k \in DOMAIN args.csv |->
                                  args.csv[k].model_path]))
                   /\ UNCHANGED error
       ELSE IF /\ Truthy(args.models_given, args.models)
               /\ Truthy(args.tasks_given, args.tasks)
               /\ args.n_shot.kind # "none"
              THEN /\ CallProcessModelPaths(args.models)
                   /\ UNCHANGED <<df, error>>
              ELSE /\ Raise("ValueError")
                   /\ UNCHANGED <<pm_models, pm_i, model_paths, pm_keys, df>>
  /\ UNCHANGED <<args, hubOk, imageAtBase, imageAtCall, imageFetches, warned,
                 model_path_map>>
  /\ UNCHANGED notSchedVars

\* lines 139-209: one iteration of the loop over `models`
ResolveStep ==
  /\ spc = "resolve"
  /\ pm_i <= Len(pm_models)
  /\ LET model == pm_models[pm_i]
     IN IF ~IsLocalDir(model) /\ RemoteRaises(model)
          THEN /\ Raise("SnapshotDownloadError")
               /\ UNCHANGED <<pm_i, model_paths, pm_keys, warned>>
          ELSE /\ model_paths' = model_paths \o Resolved(model)
               /\ warned' = IF model_paths' = <<>> THEN warned \cup {model}
                            ELSE warned
               /\ pm_keys' = IF model \in Range(pm_keys) THEN pm_keys
                             ELSE Append(pm_keys, model)
               /\ pm_i' = pm_i + 1
               /\ UNCHANGED <<spc, error>>
  /\ UNCHANGED <<args, hubOk, imageAtBase, imageAtCall, imageFetches,
                 pm_models, model_path_map, df>>
  /\ UNCHANGED notSchedVars

\* line 209: processed_model_paths[model] = model_paths stores a reference
\* to the one list, so at line 210 every key holds the whole list
ProcessedModelPaths == [k \in Range(pm_keys) |-> model_paths]

\* line 210 (and 387, 401): the mapping is returned to schedule_evals
ResolveReturn ==
  /\ spc = "resolve"
  /\ pm_i > Len(pm_models)
  /\ model_path_map' = ProcessedModelPaths
  /\ spc' = IF args.csv_given THEN "expand" ELSE "product"
  /\ UNCHANGED <<args, hubOk, imageAtBase, imageAtCall, imageFetches,
                 pm_models, pm_i, model_paths, pm_keys, warned, df, error>>
  /\ UNCHANGED notSchedVars

\* lines 392-397: the rows one table row is expanded to
ExpandRow(row, map) ==
  IF row.model_path \in DOMAIN map
    THEN [k \in DOMAIN map[row.model_path] |->
            [row EXCEPT !.model_path = map[row.model_path][k]]]
    ELSE <<>>

\* lines 389-398: the table with every row expanded
ExpandTable ==
  /\ spc = "expand"
  /\ df' = Flatten([k \in DOMAIN df |-> ExpandRow(df[k], model_path_map)])
  /\ spc' = "built"
  /\ UNCHANGED <<args, hubOk, imageAtBase, imageAtCall, imageFetches,
                 pm_models, pm_i, model_paths, pm_keys, warned,
                 model_path_map, error>>
  /\ UNCHANGED notSchedVars

\* line 402: [p for paths in model_path_map.values() for p in paths]
FlattenValues(map, keys) == Flatten([k \in DOMAIN keys |-> map[keys[k]]])

\* lines 406-413: itertools.product(model_paths, tasks_list, shots) as rows
Product(paths, tasks_list, shots) ==
  Flatten([i \in DOMAIN paths |->
    Flatten([j \in DOMAIN tasks_list |->
      [k \in DOMAIN shots |->
         [model_path |-> paths[i], task_path |-> tasks_list[j],
          n_shot |-> shots[k], note |-> 0]]])])

\* lines 402-413: the cross product of the generative mode
CrossProduct ==
  /\ spc = "product"
  /\ df' = Product(FlattenValues(model_path_map, pm_keys), args.tasks,
                   args.n_shot.val)
  /\ spc' = "built"
  /\ UNCHANGED <<args, hubOk, imageAtBase, imageAtCall, imageFetches,
                 pm_models, pm_i, model_paths, pm_keys, warned,
                 model_path_map, error>>
  /\ UNCHANGED notSchedVars

NextSched ==
  \/ SchedStart
  \/ MainEnsureImage
  \/ SchedMode
  \/ ResolveStep
  \/ ResolveReturn
  \/ ExpandTable
  \/ CrossProduct

\* ========================================================================
\* Part III: schedule_evals after the matrix is built (lines 419-499) and
\* main._parse_user_queue_load, for concurrent invocations
\* ========================================================================
\* the two invocations of schedule_evals that share the output root, the
\* queue and the clock
Runs == {1, 2}

\* line 430: the default of QUEUE_LIMIT
DefaultQueueLimit == 250
\* the values int(os.environ.get("QUEUE_LIMIT", 250)) takes: QUEUE_LIMIT
\* unset, "1" or "0"
QueueLimits == {DefaultQueueLimit, 1, 0}
\* jobs the user submits from elsewhere
OtherLoad == DefaultQueueLimit + 10

\* ---- text: str(int), str.strip(), int(str) ----
DigitChars == <<"0", "1", "2", "3", "4", "5", "6", "7", "8", "9">>
Whitespace == {" ", "\n", "\t"}
\* the decimal digits of n >= 0, what `wc -l` prints before the newline
RECURSIVE ToDecimal(_)
ToDecimal(n) ==
  IF n < 10 THEN <<DigitChars[n + 1]>>
  ELSE Append(ToDecimal(n \div 10), DigitChars[(n % 10) + 1])
RECURSIVE LStrip(_)
LStrip(text) ==
  IF text # <<>> /\ Head(text) \in Whitespace THEN LStrip(Tail(text))
  ELSE text
RECURSIVE RStrip(_)
RStrip(text) ==
  IF text # <<>> /\ text[Len(text)] \in Whitespace
    THEN RStrip(SubSeq(text, 1, Len(text) - 1))
    ELSE text
\* line 121: result.stdout.strip()
Strip(text) == RStrip(LStrip(text))
IsDigit(c) == \E k \in DOMAIN DigitChars : DigitChars[k] = c
DigitValue(c) == (CHOOSE k \in DOMAIN DigitChars : DigitChars[k] = c) - 1
\* int(text) does not raise ValueError (unsigned decimal literals)
IntLiteral(text) == text # <<>> /\ \A k \in DOMAIN text : IsDigit(text[k])
\* int(text) for such a literal
RECURSIVE ToInt(_)
ToInt(text) ==
  IF Len(text) = 1 THEN DigitValue(text[1])
  ELSE 10 * ToInt(SubSeq(text, 1, Len(text) - 1)) + DigitValue(text[Len(text)])

\* what the pipeline `squeue ... | wc -l` can leave in result.stdout when
\* the queue holds q jobs: the count, nothing, a blank line, or other text
Garbage == <<"e", "r", "r", "\n">>
\* a pipeline that reports the count of an earlier moment, when the queue
\* was empty
SqueueOutputs_Cached(q) == {Append(ToDecimal(0), "\n"), <<>>, <<"\n">>, Garbage}

SqueueOutputs(q) == {Append(ToDecimal(q), "\n"), <<>>, <<"\n">>, Garbage}

\* a parse that takes unusable output for a full queue
ParseUserQueueLoad_FullOnBadOutput(stdout) ==
  IF stdout # <<>> /\ IntLiteral(Strip(stdout)) THEN ToInt(Strip(stdout))
  ELSE OtherLoad

\* _parse_user_queue_load, lines 119-127: the value returned
ParseUserQueueLoad(stdout) ==
  IF stdout # <<>>
    THEN IF IntLiteral(Strip(stdout)) THEN ToInt(Strip(stdout)) ELSE 0
    ELSE 0
\* _parse_user_queue_load, lines 122-125: the warnings logged
ParseWarnings(stdout, stderr) ==
  IF stdout # <<>>
    THEN IF IntLiteral(Strip(stdout)) THEN {} ELSE {"warning: squeue output"}
    ELSE IF stderr THEN {"warning: squeue stderr"} ELSE {}

\* ---- the output root ----
NoDir == <<>>
\* Path(EVAL_OUTPUT_DIR) / datetime.now().strftime("%Y-%m-%d-%H-%M-%S")
TimestampDir(t) == <<"EVAL_OUTPUT_DIR", t>>
RunDirs == {TimestampDir(t) : t \in 0..MaxClock}
\* a file that does not exist
NoCsv == [by |-> 0, nrows |-> 0]
NoScript == [by |-> 0, csv_path |-> NoDir, array_limit |-> 0, num_jobs |-> 0]
NoRunDir == [exists |-> FALSE, jobs_csv |-> NoCsv, submit_evals |-> NoScript]

\* the invocation returns None
Return(r) == rpc' = [rpc EXCEPT ![r] = "returned"]
Log(r, msgs) == logs' = [logs EXCEPT ![r] = @ \cup msgs]

\* lines 374-417 for invocation r, in short: a matrix of njobs rows is built
\* (SpecSched builds it step by step)
MatrixBuilt(r) ==
  /\ rpc[r] = "none"
  /\ \E n \in 0..MaxJobs : njobs' = [njobs EXCEPT ![r] = n]
  /\ \E d \in BOOLEAN : download_only' = [download_only EXCEPT ![r] = d]
  /\ rpc' = [rpc EXCEPT ![r] = "built"]
  /\ UNCHANGED <<queue_limit, squeue_stdout, remaining_queue_capacity,
                 evals_dir, logs, queueQueries, sbatch_result, now, queue,
                 run_dirs>>
  /\ UNCHANGED notSubmitVars

\* the check of line 419 left out
CheckEmpty_NoReturn(r) ==
  /\ rpc[r] = "built"
  /\ rpc' = [rpc EXCEPT ![r] = "predownload"]
  /\ UNCHANGED <<njobs, download_only, queue_limit, squeue_stdout,
                 remaining_queue_capacity, evals_dir, logs, queueQueries,
                 sbatch_result, now, queue, run_dirs>>
  /\ UNCHANGED notSubmitVars

\* lines 419-421: if df.empty: warning, return None
CheckEmpty(r) ==
  /\ rpc[r] = "built"
  /\ IF njobs[r] = 0
       THEN Return(r) /\ Log(r, {"warning: no jobs"})
       ELSE rpc' = [rpc EXCEPT ![r] = "predownload"] /\ UNCHANGED logs
  /\ UNCHANGED <<njobs, download_only, queue_limit, squeue_stdout,
                 remaining_queue_capacity, evals_dir, queueQueries,
                 sbatch_result, now, queue, run_dirs>>
  /\ UNCHANGED notSubmitVars

\* line 427 left out: download_only is ignored
PreDownload_NoReturn(r) ==
  /\ rpc[r] = "predownload"
  /\ rpc' = [rpc EXCEPT ![r] = "queue"]
  /\ UNCHANGED <<njobs, download_only, queue_limit, squeue_stdout,
                 remaining_queue_capacity, evals_dir, logs, queueQueries,
                 sbatch_result, now, queue, run_dirs>>
  /\ UNCHANGED notSubmitVars

\* lines 423-428: _pre_download_task_datasets handles its own failures
\* (lines 230-238, 318-324); if download_only: return None
PreDownload(r) ==
  /\ rpc[r] = "predownload"
  /\ IF download_only[r]
       THEN Return(r)
       ELSE rpc' = [rpc EXCEPT ![r] = "queue"]
  /\ UNCHANGED <<njobs, download_only, queue_limit, squeue_stdout,
                 remaining_queue_capacity, evals_dir, logs, queueQueries,
                 sbatch_result, now, queue, run_dirs>>
  /\ UNCHANGED notSubmitVars

\* the condition of line 433 written with < in place of <=
NoCapacity_Negative(remaining) == remaining < 0

\* line 433: if remaining_queue_capacity <= 0
NoCapacity(remaining) == remaining <= 0

\* lines 430-435 with _parse_user_queue_load (lines 109-127): the capacity
\* left under the limit, and the return when there is none
QueueQuery(r) ==
  /\ rpc[r] = "queue"
  /\ \E limit \in QueueLimits, stdout \in SqueueOutputs(queue),
        stderr \in BOOLEAN :
       LET remaining == limit - ParseUserQueueLoad(stdout)
       IN /\ queue_limit' = [queue_limit EXCEPT ![r] = limit]
          /\ squeue_stdout' = [squeue_stdout EXCEPT ![r] = stdout]
          /\ remaining_queue_capacity' =
               [remaining_queue_capacity EXCEPT ![r] = remaining]
          /\ IF NoCapacity(remaining)
               THEN /\ Return(r)
                    /\ Log(r, ParseWarnings(stdout, stderr)
                                \cup {"warning: no capacity"})
               ELSE /\ rpc' = [rpc EXCEPT ![r] = "mkdir"]
                    /\ Log(r, ParseWarnings(stdout, stderr))
  /\ queueQueries' = [queueQueries EXCEPT ![r] = @ + 1]
  /\ UNCHANGED <<njobs, download_only, evals_dir, sbatch_result, now, queue,
                 run_dirs>>
  /\ UNCHANGED notSubmitVars

\* lines 442-449: the run directory named after the current second,
\* mkdir(parents=True, exist_ok=True)
MakeRunDir(r) ==
  /\ rpc[r] = "mkdir"
  /\ evals_dir' = [evals_dir EXCEPT ![r] = TimestampDir(now)]
  /\ run_dirs' = [run_dirs EXCEPT ![TimestampDir(now)].exists = TRUE]
  /\ rpc' = [rpc EXCEPT ![r] = "write_csv"]
  /\ UNCHANGED <<njobs, download_only, queue_limit, squeue_stdout,
                 remaining_queue_capacity, logs, queueQueries, sbatch_result,
                 now, queue>>
  /\ UNCHANGED notSubmitVars

\* lines 450-452: df.to_csv(evals_dir / "jobs.csv", index=False)
WriteCsv(r) ==
  /\ rpc[r] = "write_csv"
  /\ run_dirs' = [run_dirs EXCEPT ![evals_dir[r]].jobs_csv =
                    [by |-> r, nrows |-> njobs[r]]]
  /\ rpc' = [rpc EXCEPT ![r] = "write_sbatch"]
  /\ UNCHANGED <<njobs, download_only, queue_limit, squeue_stdout,
                 remaining_queue_capacity, evals_dir, logs, queueQueries,
                 sbatch_result, now, queue>>
  /\ UNCHANGED notSubmitVars

\* a template rendered for the jobs the remaining capacity admits only
SbatchScript_Truncated(r) ==
  LET admitted == IF njobs[r] <= remaining_queue_capacity[r] THEN njobs[r]
                  ELSE remaining_queue_capacity[r]
  IN [by |-> r, csv_path |-> evals_dir[r], array_limit |-> admitted - 1,
      num_jobs |-> admitted]

\* lines 456-468: the rendered template
SbatchScript(r) ==
  [by |-> r, csv_path |-> evals_dir[r], array_limit |-> njobs[r] - 1,
   num_jobs |-> njobs[r]]

\* lines 454-477: render the template, write submit_evals.sbatch
WriteSbatch(r) ==
  /\ rpc[r] = "write_sbatch"
  /\ run_dirs' = [run_dirs EXCEPT ![evals_dir[r]].submit_evals =
                    SbatchScript(r)]
  /\ rpc' = [rpc EXCEPT ![r] = "submit"]
  /\ UNCHANGED <<njobs, download_only, queue_limit, squeue_stdout,
                 remaining_queue_capacity, evals_dir, logs, queueQueries,
                 sbatch_result, now, queue>>
  /\ UNCHANGED notSubmitVars

\* the try statement without its `except FileNotFoundError` clause
SubmitOutcome_NoSbatchRaises(r, res) ==
  /\ sbatch_result' = [sbatch_result EXCEPT ![r] = res]
  /\ rpc' = [rpc EXCEPT ![r] = IF res = "FileNotFoundError" THEN "raised"
                                ELSE "returned"]
  /\ Log(r, CASE res = "ok" -> {"info: submitted"}
              [] res = "CalledProcessError" -> {"error: sbatch failed"}
              [] OTHER -> {})

\* lines 489-499: what the try statement around subprocess.run(["sbatch"])
\* does with its outcome: both exceptions are logged, none is raised
SubmitOutcome(r, res) ==
  /\ sbatch_result' = [sbatch_result EXCEPT ![r] = res]
  /\ Return(r)
  /\ Log(r, CASE res = "ok" -> {"info: submitted"}
              [] res = "CalledProcessError" -> {"error: sbatch failed"}
              [] OTHER -> {"error: sbatch not found"})

\* a submission that looks at the queue again and gives up when the jobs no
\* longer fit under the limit
Submit_Reserved(r) ==
  /\ rpc[r] = "submit"
  /\ IF queue + njobs[r] > queue_limit[r]
       THEN /\ Return(r)
            /\ Log(r, {"warning: no capacity"})
            /\ UNCHANGED <<sbatch_result, queue>>
       ELSE \E res \in {"ok", "CalledProcessError", "FileNotFoundError"} :
              /\ SubmitOutcome(r, res)
              /\ queue' = IF res = "ok" THEN queue + njobs[r] ELSE queue
  /\ UNCHANGED <<njobs, download_only, queue_limit, squeue_stdout,
                 remaining_queue_capacity, evals_dir, queueQueries, now,
                 run_dirs>>
  /\ UNCHANGED notSubmitVars

\* lines 479-499: sbatch reads the script from stdin; an accepted array job
\* adds num_jobs tasks to the queue
Submit(r) ==
  /\ rpc[r] = "submit"
  /\ \E res \in {"ok", "CalledProcessError", "FileNotFoundError"} :
       /\ SubmitOutcome(r, res)
       /\ queue' = IF res = "ok" THEN queue + njobs[r] ELSE queue
  /\ UNCHANGED <<njobs, download_only, queue_limit, squeue_stdout,
                 remaining_queue_capacity, evals_dir, queueQueries, now,
                 run_dirs>>
  /\ UNCHANGED notSubmitVars

\* a second passes; it matters to an invocation about to read the clock
Tick ==
  /\ now < MaxClock
  /\ \E r \in Runs : rpc[r] = "mkdir"
  /\ now' = now + 1
  /\ UNCHANGED <<rpc, njobs, download_only, queue_limit, squeue_stdout,
                 remaining_queue_capacity, evals_dir, logs, queueQueries,
                 sbatch_result, queue, run_dirs>>
  /\ UNCHANGED notSubmitVars

\* the user's other jobs enter the queue; it matters to an invocation about
\* to run squeue
OtherJobs ==
  /\ queue < OtherLoad
  /\ \E r \in Runs : rpc[r] = "queue"
  /\ queue' = queue + OtherLoad
  /\ UNCHANGED <<rpc, njobs, download_only, queue_limit, squeue_stdout,
                 remaining_queue_capacity, evals_dir, logs, queueQueries,
                 sbatch_result, now, run_dirs>>
  /\ UNCHANGED notSubmitVars

NextSubmit ==
  \/ \E r \in Runs :
       \/ MatrixBuilt(r)
       \/ CheckEmpty(r)
       \/ PreDownload(r)
       \/ QueueQuery(r)
       \/ MakeRunDir(r)
       \/ WriteCsv(r)
       \/ WriteSbatch(r)
       \/ Submit(r)
  \/ Tick
  \/ OtherJobs

\* ---- _process_model_paths called again and again (lines 130-210) ----
\* a call of _process_model_paths(models); the file system and the hub stay
\* as they were at the first call
ResolveCall ==
  /\ spc \in {"idle", "resolved"}
  /\ Len(results) < NumCalls
  /\ IF spc = "idle" THEN hubOk' \in SUBSET HubKeys ELSE UNCHANGED hubOk
  /\ \E models \in ModelLists : CallProcessModelPaths(models)
  /\ UNCHANGED <<args, imageAtBase, imageAtCall, imageFetches, warned,
                 model_path_map, df, error>>
  /\ UNCHANGED <<ensureVars, submitVars, callVars>>

\* line 210: return processed_model_paths
ResolveDone ==
  /\ spc = "resolve"
  /\ pm_i > Len(pm_models)
  /\ results' = Append(results, ProcessedModelPaths)
  /\ spc' = "resolved"
  /\ UNCHANGED <<args, hubOk, imageAtBase, imageAtCall, imageFetches,
                 pm_models, pm_i, model_paths, pm_keys, warned,
                 model_path_map, df, error>>
  /\ UNCHANGED <<ensureVars, submitVars>>

NextResolve ==
  \/ ResolveCall
  \/ ResolveStep
  \/ ResolveDone

NextEnsure ==
  \E p \in Procs :
    \/ EnsureStart(p)
    \/ HfHubDownload(p)
    \/ CopyOpen(p)
    \/ CopyWrite(p)
    \/ CopyStat(p)
    \/ FetchReplace(p)
    \/ BuildMktemp(p)
    \/ BuildRun(p)
    \/ BuildReplace(p)
    \/ BuildExcept(p)

vars == <<ensureVars, schedVars, submitVars, callVars>>

\* Before any call: the destination holds a complete image or nothing, no
\* process is inside ensure_singularity_image, schedule_evals is not running
Init ==
  /\ initPresent \in BOOLEAN
  /\ dir = [p \in Paths |->
              IF p = SifPath /\ initPresent THEN InitInode ELSE NoFile]
  /\ content = [i \in Inodes |->
                  IF i = InitInode /\ initPresent THEN Complete ELSE {}]
  /\ pc = [p \in Procs |-> "idle"]
  /\ fd = [p \in Procs |-> NoFile]
  /\ offset = [p \in Procs |-> 1]
  /\ tmp_path = [p \in Procs |-> NoPath]
  /\ fetchFailed = [p \in Procs |-> FALSE]
  /\ buildAttempted = [p \in Procs |-> FALSE]
  /\ buildFailed = [p \in Procs |-> FALSE]
  /\ installers = {}
  /\ spc = "idle"
  /\ args = NoArgs
  /\ hubOk = {}
  /\ imageAtBase = FALSE
  /\ imageAtCall = FALSE
  /\ imageFetches = 0
  /\ pm_models = <<>>
  /\ pm_i = 1
  /\ model_paths = <<>>
  /\ pm_keys = <<>>
  /\ warned = {}
  /\ model_path_map = <<>>
  /\ df = <<>>
  /\ error = ""
  /\ rpc = [r \in Runs |-> "none"]
  /\ njobs = [r \in Runs |-> 0]
  /\ download_only = [r \in Runs |-> FALSE]
  /\ queue_limit = [r \in Runs |-> 0]
  /\ squeue_stdout = [r \in Runs |-> <<>>]
  /\ remaining_queue_capacity = [r \in Runs |-> 0]
  /\ evals_dir = [r \in Runs |-> NoDir]
  /\ logs = [r \in Runs |-> {}]
  /\ queueQueries = [r \in Runs |-> 0]
  /\ sbatch_result = [r \in Runs |-> ""]
  /\ now = 0
  /\ queue = 0
  /\ run_dirs = [d \in RunDirs |-> NoRunDir]
  /\ results = <<>>

\* concurrent calls of container_utils.ensure_singularity_image
SpecEnsure == Init /\ [][NextEnsure]_vars

\* one run of main.schedule_evals
SpecSched == Init /\ [][NextSched]_vars

\* concurrent invocations of schedule_evals from the built matrix on
SpecSubmit == Init /\ [][NextSubmit]_vars

\* calls of _process_model_paths on one unchanged file system
SpecResolve == Init /\ [][NextResolve]_vars

Spec == SpecEnsure

\* the call of p has ended, by return or by raising
Ended(p) == pc[p] \in {"returned", "raised"}
\* the positions at which tmp_path names the file the call is filling
WritingPcs == {"copy_write", "copy_stat", "replace", "build_run",
               "build_replace"}
\* the temporary files process p created
OwnInodes(p) == {<<p, "fetch">>, <<p, "build">>}
TempPaths == Paths \ {SifPath}

\* ------------------------------------------------------------------------
\* Claims about ensure_singularity_image (checked under SpecEnsure)
\* ------------------------------------------------------------------------

\* C1: in every reachable state of concurrent calls on one sif_path, the
\* destination is absent or holds a fully-written image.
C1_DestNeverPartial ==
  Exists(SifPath) => content[dir[SifPath]] = Complete

\* C2: no two processes fill the same temporary path at the same time, in
\* the fetch stage as in the build stage.
C2_DistinctTempFiles ==
  \A p, q \in Procs :
    (p # q /\ pc[p] \in WritingPcs /\ pc[q] \in WritingPcs)
      => tmp_path[p] # tmp_path[q]

\* C3: once the fetch stage of a call has failed, the call is at the start
\* of the build stage or has attempted the build; in particular it never
\* ended raising the fetch error without attempting the build.
C3_FetchFailureFallsThrough ==
  \A p \in Procs :
    fetchFailed[p] => (pc[p] = "build" \/ buildAttempted[p])

\* a copy into place failed half-way with the destination absent, and the
\* call went on to run the build
C3_Witness ==
  \E p \in Procs :
    /\ fetchFailed[p] /\ pc[p] = "build_run"
    /\ ~Exists(SifPath)
    /\ dir[WithSuffixTmp(SifPath)] = <<p, "fetch">>
    /\ content[<<p, "fetch">>] = {1}

\* C4: a call whose fetch stage and build stage both failed ends by raising,
\* has installed nothing, and when the destination was absent and no other
\* process installed an image the destination is still absent.
C4_BothFailLeaveDestAbsent ==
  \A p \in Procs :
    (fetchFailed[p] /\ buildFailed[p] /\ pc[p] # "build_except")
      => /\ pc[p] = "raised"
         /\ p \notin installers
         /\ (~initPresent /\ installers = {}) => ~Exists(SifPath)

\* a call raised after a failed fetch and a failed build, destination absent
C4_Witness ==
  \E p \in Procs :
    /\ pc[p] = "raised" /\ fetchFailed[p] /\ buildFailed[p]
    /\ ~initPresent /\ installers = {} /\ ~Exists(SifPath)

\* C5: after a call ended, no temporary file it created is left in the
\* destination directory.
C5_NoTempLeftBehind ==
  \A p \in Procs :
    Ended(p) => \A path \in TempPaths : dir[path] \notin OwnInodes(p)

\* ------------------------------------------------------------------------
\* Claims about schedule_evals and _process_model_paths (checked under
\* SpecSched)
\* ------------------------------------------------------------------------
\* the mapping _process_model_paths returned is in model_path_map
MapReturned == spc \in {"expand", "product", "built"}

\* the number of entries the references of a list resolve to, each alone
RECURSIVE SumResolved(_)
SumResolved(models) ==
  IF models = <<>> THEN 0
  ELSE Len(Resolved(Head(models))) + SumResolved(Tail(models))

\* a table row expanded to the paths of its own model reference
OwnExpansion(row) ==
  [j \in DOMAIN Resolved(row.model_path) |->
     [row EXCEPT !.model_path = Resolved(row.model_path)[j]]]

\* C6: when the image already exists, ensuring it performs no fetch: a run
\* that found the image in place has called hf_hub_download zero times.
C6_NoFetchWhenImagePresent ==
  imageAtCall => imageFetches = 0

\* C7: the returned mapping has one entry per input reference, and the entry
\* of a reference holds the paths resolved from that reference alone
\* (nothing when the reference resolves to nothing).
C7_EachRefOwnEntries ==
  MapReturned =>
    /\ DOMAIN model_path_map = Range(pm_models)
    /\ \A ref \in DOMAIN model_path_map :
         Range(model_path_map[ref]) = Range(Resolved(ref))

\* C8: in generative mode the matrix has (sum over the model references of
\* the entries each resolves to) x |tasks| x |shots| rows, whether a
\* reference given twice is counted once or twice, and every row's model is
\* an entry some given reference resolves to.
C8_GenerativeCrossProduct ==
  (spc = "built" /\ ~args.csv_given) =>
    /\ \E n \in {SumResolved(args.models), SumResolved(Unique(args.models))} :
         Len(df) = n * Len(args.tasks) * Len(args.n_shot.val)
    /\ \A k \in DOMAIN df :
         \E ref \in Range(args.models) :
           df[k].model_path \in Range(Resolved(ref))

\* C9: in explicit-table mode the matrix is the table with every row
\* replaced, in place, by one row per path its own model reference resolves
\* to, the other columns unchanged.
C9_RowsExpandedInPlace ==
  (spc = "built" /\ args.csv_given) =>
    df = Flatten([k \in DOMAIN args.csv |-> OwnExpansion(args.csv[k])])

\* C10: a failed download of a remote reference never ends the run: the run
\* never raises the error of snapshot_download.
C10_DownloadFailureNeverAborts ==
  error # "SnapshotDownloadError"

\* C11: a call that gives a table together with any of models, tasks and
\* n_shot (a shot count of 0 included) never reads the table nor resolves a
\* model: it does not get past the check of the input mode.
C11_ModesMutuallyExclusive ==
  (/\ args.csv_given
   /\ (args.models_given \/ args.tasks_given \/ args.n_shot.kind # "none"))
    => /\ spc \notin {"resolve", "expand", "product", "built"}
       /\ df = <<>>

\* ------------------------------------------------------------------------
\* Claims about schedule_evals from the built matrix on (checked under
\* SpecSubmit)
\* ------------------------------------------------------------------------
\* invocation r has run _parse_user_queue_load
Queried(r) == queueQueries[r] > 0
\* invocation r is between the capacity check and the end of the submission
Proceeding(r) == rpc[r] \in {"mkdir", "write_csv", "write_sbatch", "submit"}
\* subprocess.run(["sbatch"]) was called by r
SubmissionInvoked(r) == sbatch_result[r] # ""
\* the files r wrote, under any run directory
WroteNothing(r) ==
  \A d \in RunDirs :
    run_dirs[d].jobs_csv.by # r /\ run_dirs[d].submit_evals.by # r

\* C12: the remaining capacity is the limit minus the occupied count, and an
\* invocation that found it <= 0 has returned with the no-capacity warning,
\* has no run directory, wrote no table and no script, and did not call
\* sbatch.
C12_NoCapacityStopsRun ==
  \A r \in Runs :
    Queried(r) =>
      /\ remaining_queue_capacity[r]
           = queue_limit[r] - ParseUserQueueLoad(squeue_stdout[r])
      /\ remaining_queue_capacity[r] <= 0 =>
           /\ rpc[r] = "returned"
           /\ "warning: no capacity" \in logs[r]
           /\ evals_dir[r] = NoDir
           /\ WroteNothing(r)
           /\ ~SubmissionInvoked(r)

\* limit 250, 260 jobs in the queue: remaining -10, the invocation returned
C12_Witness ==
  \E r \in Runs :
    /\ Queried(r) /\ rpc[r] = "returned"
    /\ queue_limit[r] = DefaultQueueLimit
    /\ squeue_stdout[r] = <<"2", "6", "0", "\n">>
    /\ remaining_queue_capacity[r] = 0 - 10
    /\ njobs[r] > 0

C14_EmptyMatrixReturns ==
  \A r \in Runs :
    (njobs[r] = 0 /\ rpc[r] \notin {"none", "built"})
      => /\ rpc[r] = "returned"
         /\ logs[r] = {"warning: no jobs"}
         /\ queueQueries[r] = 0
         /\ evals_dir[r] = NoDir
         /\ WroteNothing(r)
         /\ ~SubmissionInvoked(r)

\* an invocation with an empty matrix returned while the other one, with a
\* matrix of one row, went on to submit
C14_Witness ==
  \E r, q \in Runs :
    /\ njobs[r] = 0 /\ rpc[r] = "returned"
    /\ logs[r] = {"warning: no jobs"}
    /\ njobs[q] = 1 /\ sbatch_result[q] = "ok"

\* both files of the run directory of r exist
BothFilesPersisted(r) ==
  /\ evals_dir[r] # NoDir
  /\ run_dirs[evals_dir[r]].exists
  /\ run_dirs[evals_dir[r]].jobs_csv.by # 0
  /\ run_dirs[evals_dir[r]].submit_evals.by # 0

\* C15: when an invocation is about to call sbatch, and ever after, jobs.csv
\* and submit_evals.sbatch exist in its run directory; when sbatch was
\* missing or exited non-zero the invocation returned, with the error
\* logged, and the two files are still there.
C15_PersistedBeforeSubmission ==
  \A r \in Runs :
    /\ (rpc[r] = "submit" \/ SubmissionInvoked(r)) => BothFilesPersisted(r)
    /\ sbatch_result[r] \in {"CalledProcessError", "FileNotFoundError"} =>
         /\ rpc[r] = "returned"
         /\ \/ "error: sbatch failed" \in logs[r]
            \/ "error: sbatch not found" \in logs[r]

\* sbatch is not installed: the invocation returned after logging the
\* error, its table and its script are in its run directory
C15_Witness ==
  \E r \in Runs :
    /\ sbatch_result[r] = "FileNotFoundError" /\ rpc[r] = "returned"
    /\ "error: sbatch not found" \in logs[r]
    /\ run_dirs[evals_dir[r]].jobs_csv = [by |-> r, nrows |-> njobs[r]]
    /\ run_dirs[evals_dir[r]].submit_evals.by = r

\* C16: two invocations that both made their run directory have different
\* run directories.
C16_RunDirsNeverShared ==
  \A r, q \in Runs :
    (r # q /\ evals_dir[r] # NoDir /\ evals_dir[q] # NoDir)
      => evals_dir[r] # evals_dir[q]

\* the text squeue left for r is not a number
UnusableOutput(r) == ~IntLiteral(Strip(squeue_stdout[r]))

\* C19: when the output of the squeue pipeline is empty or not a number,
\* _parse_user_queue_load returns 0: the remaining capacity is the limit,
\* and with a limit > 0 the invocation goes on to the submission.
C19_UnusableOutputCountsAsZero ==
  \A r \in Runs :
    (Queried(r) /\ UnusableOutput(r)) =>
      /\ remaining_queue_capacity[r] = queue_limit[r]
      /\ queue_limit[r] > 0 => (Proceeding(r) \/ SubmissionInvoked(r))

\* with 260 jobs in the queue, one invocation got no output and the other
\* one text that is not a number; both took the capacity for the limit and
\* called sbatch
C19_Witness ==
  \E r, q \in Runs :
    /\ queue >= OtherLoad
    /\ squeue_stdout[r] = <<>> /\ Queried(r)
    /\ squeue_stdout[q] = Garbage
    /\ remaining_queue_capacity[r] = DefaultQueueLimit
    /\ remaining_queue_capacity[q] = 1
    /\ "warning: squeue output" \in logs[q]
    /\ SubmissionInvoked(r) /\ SubmissionInvoked(q)

\* ------------------------------------------------------------------------
\* More claims about schedule_evals and _process_model_paths (checked under
\* SpecSched)
\* ------------------------------------------------------------------------
\* C17: when _process_model_paths has returned, every given reference that
\* resolves to no entry, at any position of the list, was logged as skipped.
C17_EveryUnresolvedRefWarned ==
  MapReturned =>
    \A ref \in Range(pm_models) : Resolved(ref) = <<>> => ref \in warned

\* C18: the image step of schedule_evals never ends the run with the error
\* of the remote fetch.
C18_ImageFetchErrorNotRaised ==
  error # "HubDownloadError"

\* ------------------------------------------------------------------------
\* Claim about repeated calls of _process_model_paths (checked under
\* SpecResolve)
\* ------------------------------------------------------------------------
\* the local references that hold nested checkpoint directories
CheckpointTrees ==
  {ref \in LocalDirs :
     \E k \in DOMAIN LocalMatches(ref) : LocalMatches(ref)[k] # ref}

\* C20: any two calls that were both given the same local checkpoint-tree
\* reference return the same set of resolved paths for that reference.
C20_ResolutionIdempotent ==
  \A i, j \in DOMAIN results :
    \A ref \in CheckpointTrees :
      (ref \in DOMAIN results[i] /\ ref \in DOMAIN results[j])
        => Range(results[i][ref]) = Range(results[j][ref])

\* ------------------------------------------------------------------------
\* More claims about schedule_evals from the built matrix on (checked under
\* SpecSubmit)
\* ------------------------------------------------------------------------
\* an invocation is past the capacity decision exactly when it has queried
\* the queue once; it queried only with a non-empty matrix and without
\* download_only
C21_QueriedOnce ==
  \A r \in Runs :
    /\ queueQueries[r] <= 1
    /\ (Proceeding(r) \/ evals_dir[r] # NoDir \/ SubmissionInvoked(r)
          \/ "warning: no capacity" \in logs[r]) => queueQueries[r] = 1
    /\ Queried(r) => (njobs[r] > 0 /\ ~download_only[r])
    /\ rpc[r] \in {"none", "built", "predownload", "queue"}
         => queueQueries[r] = 0

\* the step that queries the queue is taken at line 431, before the run
\* directory exists, and a count it reads is the count of that moment
C21_QueryStep ==
  \A r \in Runs :
    queueQueries'[r] # queueQueries[r] =>
      /\ rpc[r] = "queue"
      /\ evals_dir[r] = NoDir /\ evals_dir'[r] = NoDir
      /\ IntLiteral(Strip(squeue_stdout'[r]))
           => ToInt(Strip(squeue_stdout'[r])) = queue

\* C21: every invocation that reaches the capacity decision queries the
\* queue exactly once, reading the count of that moment, after its matrix
\* was found non-empty and before its run directory is made; an invocation
\* that stops before (empty matrix, download_only) never queries it.
C21_QueueQueriedOnceFresh ==
  []C21_QueriedOnce /\ [][C21_QueryStep]_vars

\* the other jobs of the user entered the queue after invocation q had read
\* it and before invocation r read it: r read 260, q had read 0; both
\* queried once
C21_Witness ==
  \E r, q \in Runs :
    /\ squeue_stdout[q] = <<"0", "\n">>
    /\ squeue_stdout[r] = <<"2", "6", "0", "\n">>
    /\ queueQueries[r] = 1 /\ queueQueries[q] = 1
    /\ rpc[r] = "returned" /\ SubmissionInvoked(q)

\* C22: nothing holds back an invocation that read a count below the limit:
\* also when the accepted submission of the other invocation has filled the
\* queue up to its limit or beyond in the meantime, it does not query again
\* and is on its way to sbatch or has called it.
C22_NoReservation ==
  \A r, q \in Runs :
    (/\ r # q
     /\ Queried(r) /\ remaining_queue_capacity[r] > 0
     /\ sbatch_result[q] = "ok"
     /\ queue >= queue_limit[r])
      => /\ queueQueries[r] = 1
         /\ Proceeding(r) \/ SubmissionInvoked(r)

\* limit 1 for both, both read 0 jobs, both array jobs were accepted: the
\* queue holds more jobs than the limit
C22_Witness ==
  \E r, q \in Runs :
    /\ r # q
    /\ queue_limit[r] = 1 /\ queue_limit[q] = 1
    /\ squeue_stdout[r] = <<"0", "\n">> /\ squeue_stdout[q] = <<"0", "\n">>
    /\ sbatch_result[r] = "ok" /\ sbatch_result[q] = "ok"
    /\ queue = njobs[r] + njobs[q]
    /\ queue > queue_limit[r]

\* C24: an invocation with download_only set never gets past line 428: it
\* never queries the queue, has no run directory, wrote no table and no
\* script and did not call sbatch.
C24_DownloadOnlyStops ==
  \A r \in Runs :
    download_only[r] =>
      /\ rpc[r] \in {"none", "built", "predownload", "returned"}
      /\ queueQueries[r] = 0
      /\ evals_dir[r] = NoDir
      /\ WroteNothing(r)
      /\ ~SubmissionInvoked(r)

\* an invocation with download_only and a matrix of two rows returned
\* while the queue, filled by the user's other jobs, was read by the other
\* invocation
C24_Witness ==
  \E r, q \in Runs :
    /\ download_only[r] /\ njobs[r] = 2 /\ rpc[r] = "returned"
    /\ logs[r] = {}
    /\ queue >= OtherLoad /\ Queried(q)

\* ------------------------------------------------------------------------
\* One more claim about ensure_singularity_image (checked under SpecEnsure)
\* ------------------------------------------------------------------------
\* the destination holds a fully-written image
DestComplete(d, c) == d[SifPath] # NoFile /\ c[d[SifPath]] = Complete

\* C23: no step of any call takes a complete image away from the
\* destination: when sif_path holds a fully-written image before a step, it
\* holds one after it.
C23_CompleteImageStays ==
  [][DestComplete(dir, content) => DestComplete(dir', content')]_vars

====
